---- MODULE Spec2Model ----
(***************************************************************************)
(* State-machine model of the scrape orchestration engine of the journal   *)
(* scraper extension (extension/background.js): the session record, the    *)
(* four message handlers, the delayed navigation timers and the            *)
(* asynchronous chrome.tabs callbacks.                                     *)
(***************************************************************************)
EXTENDS Integers, Sequences, FiniteSets, TLC

\* ------------------------------------------------------------------ bounds
\* Number of startScraping messages (one tab is created per start).
MaxTabs == 2
\* Total articles a session accumulates (allArticles plus natureArticles).
MaxArticles == 2
\* Issue results processed in one session.
MaxIssues == 1
\* Search results processed in one session.
MaxPages == 1
\* Delayed navigations in flight at once: timers whose delay has not elapsed
\* plus chrome.tabs.update outcomes not yet reported.
MaxPending == 1

\* The long search run: search results only, up to DeepPages of them in a
\* session (one more than the code's page limit).
DeepTabs == 2
DeepPages == 21
DeepPending == 1

\* The file run: issue results of several journals and publication dates,
\* as many as FileIssues of them in a session.
FileTabs == 1
FileIssues == 2
FilePages == 1
FilePending == 1

\* The article run: issue results with articles, as many as ArticleIssues of
\* them in a session.
ArticleTabs == 1
ArticleIssues == 2
ArticlePending == 1

\* The download run: as many as SaveDownloads chrome.downloads.download
\* outcomes not yet reported at once.
SaveTabs == 1
SaveIssues == 1
SavePages == 1
SavePending == 1
SaveDownloads == 2

\* The page-load run: every page the scraper tab loads delivers one result;
\* an issue session has as many as LiveIssues issues, the last of them without
\* a next issue URL.
LiveTabs == 2
LiveIssues == 2
LivePages == 2
LivePending == 2

\* The session run: results of either mode, sent by any tab, search pages at
\* several URLs, as many as SessionPending delayed navigations in flight at
\* once.
SessionTabs == 1
SessionIssues == 2
SessionPages == 2
SessionPending == 2

\* The accumulation run: issue and search results with one article each, as
\* many as GrowthIssues issues and GrowthPages search pages in a session.
GrowthTabs == 1
GrowthIssues == 2
GrowthPages == 2
GrowthPending == 1

\* --------------------------------------------------------------- constants
\* scraperTabId: null
NoTab == 0
\* Math.min(..., 20)
PageLimit == 20
\* Math.ceil(totalResults / 50)
PageSize == 50
\* A totalResults that is no number: parseInt gave NaN (null once the message
\* is serialized) or the field is absent.
NaN == -1

Null == "null"
Journals == {"cell", "nature"}
ArticleLists == {<<>>, <<"A", "B">>}
TotalResultsValues == {40, 100}
\* The long search run also has totals beyond 20 pages of 50.
DeepTotals == {0, 1000, 2000}
PageSizeValues == {25, 50}

\* A publication date string as parsePublicationDate sees it: whether
\* new Date(pubDate) is a valid date and then its local year, month and day;
\* otherwise the year the pattern /\b(20\d{2})\b/ finds in it (0 when none).
PubDate(valid, year, month, day, token) ==
  [valid |-> valid, year |-> year, month |-> month, day |-> day,
   token |-> token]
\* "15 January 2024"
FullDate == PubDate(TRUE, 2024, 1, 15, 0)
\* "Volume 12, 2023", "Unknown Date"
PubDates == {FullDate, PubDate(FALSE, 0, 0, 0, 2023), PubDate(FALSE, 0, 0, 0, 0)}
\* The journal names the page scrapers of the file run report.
PageJournals == {"cell", "science"}
\* new Date() when a search page is processed, as `${yyyy}${mm}${dd}`
Today == <<"2", "0", "2", "6", "0", "1", "0", "5">>

\* A query parameter of a search URL; value is the page number of a page
\* parameter and 0 for any other.
Param(name, value) == [name |-> name, value |-> value]
\* window.location.href of a search page, as the sequence of its query
\* parameters: the first follows '?', every later one follows '&'.
\* "https://www.nature.com/search?q=crispr"
SearchUrl == <<Param("q", 0)>>

\* "https://www.nature.com/search?q=crispr&page=2&order=date" and
\* "https://www.nature.com/search?page=3&q=crispr"
SearchUrls ==
  {SearchUrl,
   <<Param("q", 0), Param("page", 2), Param("order", 0)>>,
   <<Param("page", 3), Param("q", 0)>>}
\* A tab the user opened, which the extension did not create.
OtherTab == 9
\* sender.tab.id of a pageScraped message: a tab a start created or a tab of
\* the user's that loaded a supported page.
Senders == (1..SessionTabs) \cup {OtherTab}

\* ------------------------------------------------------------------- state
VARIABLES
  state,          \* the session record `state`
  nextTabId,      \* id chrome.tabs.create gives the next tab
  pendingCreate,  \* chrome.tabs.create callbacks not yet run
  pendingRemove,  \* chrome.tabs.remove callbacks not yet run
  timers,         \* setTimeout callbacks whose delay has not elapsed, oldest first
  pendingUpdates, \* chrome.tabs.update outcomes not yet reported
  pendingSaves,   \* chrome.downloads.download outcomes not yet reported
  received,       \* what the content scripts delivered since the latest start
  loads,          \* page loads of the scraper tab whose result is not yet delivered
  last,           \* the step just taken: its name and its input
  out             \* what the step just taken requested of the browser

vars == <<state, nextTabId, pendingCreate, pendingRemove, timers,
          pendingUpdates, pendingSaves, received, loads, last, out>>

\* ----------------------------------------------------------------- helpers
Min(a, b) == IF a < b THEN a ELSE b

\* Math.ceil(a / b) for a >= 0, b >= 1
Ceil(a, b) == (a + b - 1) \div b

\* s with its i-th element removed
RemoveAt(s, i) == [k \in 1..(Len(s) - 1) |-> IF k < i THEN s[k] ELSE s[k + 1]]

\* The payloads the content script sends (sendDataToBackground).
IssueData ==
  [isNatureSearch : {FALSE}, isHeartbeat : {FALSE}, articles : ArticleLists,
   hasNext : BOOLEAN, hasPagination : {FALSE}, totalResults : {0},
   pageSize : {PageSize}, journal : {"cell"}, publicationDate : {FullDate},
   currentUrl : {SearchUrl}]

SearchData ==
  [isNatureSearch : {TRUE}, isHeartbeat : {FALSE}, articles : ArticleLists,
   hasNext : {FALSE}, hasPagination : {TRUE},
   totalResults : TotalResultsValues, pageSize : PageSizeValues,
   journal : {"nature"}, publicationDate : {FullDate},
   currentUrl : {SearchUrl}]

HeartbeatData ==
  [isNatureSearch : {FALSE}, isHeartbeat : {TRUE}, articles : {<<>>},
   hasNext : {FALSE}, hasPagination : {FALSE}, totalResults : {0},
   pageSize : {PageSize}, journal : {"cell"}, publicationDate : {FullDate},
   currentUrl : {SearchUrl}]

PageData == IssueData \cup SearchData \cup HeartbeatData

\* The search payloads of the long search run: no articles.
DeepData ==
  [isNatureSearch : {TRUE}, isHeartbeat : {FALSE}, articles : {<<>>},
   hasNext : {FALSE}, hasPagination : {TRUE}, totalResults : DeepTotals,
   pageSize : {PageSize}, journal : {"nature"}, publicationDate : {FullDate},
   currentUrl : {SearchUrl}]

\* The payloads of the download run: issue and search results without
\* articles.
SaveData ==
  [isNatureSearch : {FALSE}, isHeartbeat : {FALSE}, articles : {<<>>},
   hasNext : BOOLEAN, hasPagination : {FALSE}, totalResults : {0},
   pageSize : {PageSize}, journal : {"cell"}, publicationDate : {FullDate},
   currentUrl : {SearchUrl}]
  \cup
  [isNatureSearch : {TRUE}, isHeartbeat : {FALSE}, articles : {<<>>},
   hasNext : {FALSE}, hasPagination : {TRUE}, totalResults : {0, 100},
   pageSize : {PageSize}, journal : {"nature"}, publicationDate : {FullDate},
   currentUrl : {SearchUrl}]

\* The payloads of the article run: issue results with no article or one.
ArticleData ==
  [isNatureSearch : {FALSE}, isHeartbeat : {FALSE},
   articles : {<<>>, <<"A">>, <<"B">>},
   hasNext : BOOLEAN, hasPagination : {FALSE}, totalResults : {0},
   pageSize : {PageSize}, journal : {"cell"}, publicationDate : {FullDate},
   currentUrl : {SearchUrl}]

\* The payloads of the file run: issue results and heartbeats of either
\* journal with every kind of publication date and search results, all
\* without articles, and one issue result with an article.
FileData ==
  [isNatureSearch : {FALSE}, isHeartbeat : {FALSE}, articles : {<<"A">>},
   hasNext : {TRUE}, hasPagination : {FALSE}, totalResults : {0},
   pageSize : {PageSize}, journal : {"cell"}, publicationDate : {FullDate},
   currentUrl : {SearchUrl}]
  \cup
  [isNatureSearch : {FALSE}, isHeartbeat : {FALSE}, articles : {<<>>},
   hasNext : BOOLEAN, hasPagination : {FALSE}, totalResults : {0},
   pageSize : {PageSize}, journal : PageJournals, publicationDate : PubDates,
   currentUrl : {SearchUrl}]
  \cup
  [isNatureSearch : {FALSE}, isHeartbeat : {TRUE}, articles : {<<>>},
   hasNext : {FALSE}, hasPagination : {FALSE}, totalResults : {0},
   pageSize : {PageSize}, journal : PageJournals, publicationDate : PubDates,
   currentUrl : {SearchUrl}]
  \cup
  [isNatureSearch : {TRUE}, isHeartbeat : {FALSE}, articles : {<<>>},
   hasNext : {FALSE}, hasPagination : {TRUE}, totalResults : {NaN, 0, 100},
   pageSize : {PageSize}, journal : {"nature"}, publicationDate : {FullDate},
   currentUrl : {SearchUrl}]
  \cup
  [isNatureSearch : {TRUE}, isHeartbeat : {FALSE}, articles : {<<>>},
   hasNext : {FALSE}, hasPagination : {FALSE}, totalResults : {0},
   pageSize : {PageSize}, journal : {"nature"}, publicationDate : {FullDate},
   currentUrl : {SearchUrl}]

\* The payloads of the session run, each with the tab that sent it: issue and
\* search results with no article or one, search pages at every kind of URL.
SessionData ==
  [isNatureSearch : {FALSE}, isHeartbeat : {FALSE},
   articles : {<<>>, <<"A">>},
   hasNext : BOOLEAN, hasPagination : {FALSE}, totalResults : {0},
   pageSize : {PageSize}, journal : {"cell"}, publicationDate : {FullDate},
   currentUrl : {SearchUrl}, sender : Senders]
  \cup
  [isNatureSearch : {TRUE}, isHeartbeat : {FALSE},
   articles : {<<>>, <<"A">>},
   hasNext : {FALSE}, hasPagination : {TRUE}, totalResults : {100, 1000},
   pageSize : {PageSize}, journal : {"nature"}, publicationDate : {FullDate},
   currentUrl : SearchUrls, sender : Senders]

\* The payloads of the accumulation run: issue and search results with one
\* article.
GrowthData ==
  [isNatureSearch : {FALSE}, isHeartbeat : {FALSE},
   articles : {<<"A">>, <<"B">>},
   hasNext : BOOLEAN, hasPagination : {FALSE}, totalResults : {0},
   pageSize : {PageSize}, journal : {"cell"}, publicationDate : {FullDate},
   currentUrl : {SearchUrl}]
  \cup
  [isNatureSearch : {TRUE}, isHeartbeat : {FALSE},
   articles : {<<"A">>, <<"B">>},
   hasNext : {FALSE}, hasPagination : {TRUE}, totalResults : {100, 1000},
   pageSize : {PageSize}, journal : {"nature"}, publicationDate : {FullDate},
   currentUrl : {SearchUrl}]

\* What a search result says of the number of results: "malformed" when the
\* pagination is missing or its total is zero or no number.
Totals(d) ==
  IF ~d.isNatureSearch THEN "none"
  ELSE IF ~d.hasPagination \/ d.totalResults \in {NaN, 0} THEN "malformed"
  ELSE "some"

\* The issue results, the search results and the articles that have been
\* delivered to an active session since the latest start, counted from the
\* payloads themselves.
NoneReceived == [issues |-> 0, pages |-> 0, articles |-> 0]

Receive(n, d) ==
  IF d.isNatureSearch
  THEN [n EXCEPT !.pages = @ + 1, !.articles = @ + Len(d.articles)]
  ELSE IF d.isHeartbeat THEN n
  ELSE [n EXCEPT !.issues = @ + 1, !.articles = @ + Len(d.articles)]

\* The shape handleScrapedData dispatches on.
Shape(d) ==
  IF d.isNatureSearch THEN "search"
  ELSE IF d.isHeartbeat THEN "heartbeat" ELSE "issue"

\* const state = { ... }
InitState ==
  [isScraping |-> FALSE, scraperTabId |-> NoTab, currentJournal |-> Null,
   allArticles |-> <<>>, natureArticles |-> <<>>, naturePageCount |-> 0,
   issueCount |-> 0, lastScrapedTitle |-> ""]

\* function resetState(journal = null): the search counter left as it was
resetState_KeepsPages(s, journal) ==
  [s EXCEPT !.isScraping = TRUE,
            !.currentJournal = journal,
            !.allArticles = <<>>,
            !.natureArticles = <<>>,
            !.issueCount = 0,
            !.lastScrapedTitle = ""]

\* function resetState(journal = null): the issue articles left as they were
resetState_KeepsArticles(s, journal) ==
  [s EXCEPT !.isScraping = TRUE,
            !.currentJournal = journal,
            !.natureArticles = <<>>,
            !.naturePageCount = 0,
            !.issueCount = 0,
            !.lastScrapedTitle = ""]

\* function resetState(journal = null)
resetState(s, journal) ==
  [s EXCEPT !.isScraping = TRUE,
            !.currentJournal = journal,
            !.allArticles = <<>>,
            !.natureArticles = <<>>,
            !.naturePageCount = 0,
            !.issueCount = 0,
            !.lastScrapedTitle = ""]

\* a || b on numbers
OrElse(a, b) == IF a # 0 /\ a # NaN THEN a ELSE b

\* The status projection of handleCheckStatus and of broadcastStatus.
handleCheckStatus(s) ==
  [isScraping |-> s.isScraping,
   issueCount |-> OrElse(s.naturePageCount, s.issueCount),
   articleCount |-> OrElse(Len(s.natureArticles), Len(s.allArticles)),
   lastScrapedTitle |-> s.lastScrapedTitle,
   journal |-> s.currentJournal]

broadcastStatus(s) == handleCheckStatus(s)

\* What a step requests of the browser; NoOut is a step that requests nothing.
NoOut ==
  [files |-> <<>>, events |-> <<>>, scheduled |-> <<>>, closeReq |-> NoTab,
   createReq |-> NoTab, navigated |-> NoTab, response |-> <<>>]

\* A delayed navigation: the mode of the result that scheduled it, the search
\* page it targets (0 in issue mode), the search URL it targets (empty in
\* issue mode), and whether stopScraping has run since it was scheduled.
Timer(mode, page) ==
  [mode |-> mode, page |-> page, url |-> <<>>, stopped |-> FALSE]

\* The index of the first '&page=' of a search URL, 0 when it has none: a
\* page parameter that comes first follows '?' and is not one.
FirstAmpPage(url) ==
  IF \E i \in 2..Len(url) : url[i].name = "page"
  THEN CHOOSE i \in 2..Len(url) :
         /\ url[i].name = "page"
         /\ \A k \in 2..(i - 1) : url[k].name # "page"
  ELSE 0

\* const baseUrl = data.currentUrl.split('&page=')[0];
baseUrl(url) ==
  IF FirstAmpPage(url) = 0 THEN url ELSE SubSeq(url, 1, FirstAmpPage(url) - 1)

\* const nextUrl = `${baseUrl}&page=${state.naturePageCount + 1}`;
nextUrl(url, page) == Append(baseUrl(url), Param("page", page))

\* The step just taken: the handler or callback, whether the session was
\* active before it, and its input.  preCount is the status count a start
\* found; shape, hasNext and totals describe a page result; stopped is the
\* mark of the timer that fired; mode and ok describe a navigation outcome or
\* a download outcome.
Step(op, s) ==
  [op |-> op, wasActive |-> s.isScraping, journal |-> Null, preCount |-> 0,
   shape |-> "none", hasNext |-> FALSE, totals |-> "none", stopped |-> FALSE,
   mode |-> "none", ok |-> TRUE]

\* function stopScraping(shouldCloseTab = true): the tab closed on every stop
stopScraping_ClosesTab(s, shouldCloseTab) ==
  LET s1 == [s EXCEPT !.isScraping = FALSE]
      close == s1.scraperTabId # NoTab
  IN [st |-> s1,
      closeReq |-> IF close THEN s1.scraperTabId ELSE NoTab,
      event |-> broadcastStatus(s1)]

\* function stopScraping(shouldCloseTab = false): the status sent before the
\* state is changed
stopScraping_BroadcastFirst(s, shouldCloseTab) ==
  LET s1 == [s EXCEPT !.isScraping = FALSE]
      close == s1.scraperTabId # NoTab /\ shouldCloseTab
      s2 == IF close THEN s1
            ELSE IF s1.scraperTabId # NoTab
                 THEN [s1 EXCEPT !.scraperTabId = NoTab]
                 ELSE s1
  IN [st |-> s2,
      closeReq |-> IF close THEN s1.scraperTabId ELSE NoTab,
      event |-> broadcastStatus(s)]

\* function stopScraping(shouldCloseTab = false): the accumulators cleared
stopScraping_ClearsArticles(s, shouldCloseTab) ==
  LET s1 == [s EXCEPT !.isScraping = FALSE, !.allArticles = <<>>,
                      !.natureArticles = <<>>]
      close == s1.scraperTabId # NoTab /\ shouldCloseTab
      s2 == IF close THEN s1
            ELSE IF s1.scraperTabId # NoTab
                 THEN [s1 EXCEPT !.scraperTabId = NoTab]
                 ELSE s1
  IN [st |-> s2,
      closeReq |-> IF close THEN s1.scraperTabId ELSE NoTab,
      event |-> broadcastStatus(s2)]

\* function stopScraping(shouldCloseTab = false): the state it leaves, the
\* tab whose removal it requests (NoTab when none) and the status it sends.
stopScraping(s, shouldCloseTab) ==
  LET s1 == [s EXCEPT !.isScraping = FALSE]
      close == s1.scraperTabId # NoTab /\ shouldCloseTab
      s2 == IF close THEN s1
            ELSE IF s1.scraperTabId # NoTab
                 THEN [s1 EXCEPT !.scraperTabId = NoTab]
                 ELSE s1
  IN [st |-> s2,
      closeReq |-> IF close THEN s1.scraperTabId ELSE NoTab,
      event |-> broadcastStatus(s2)]

\* A stop cancels no timer; the mark records that stopScraping ran inside the
\* timer's delay window.
MarkStopped(ts) == [i \in 1..Len(ts) |-> [ts[i] EXCEPT !.stopped = TRUE]]

\* state.lastScrapedTitle after a result with these articles
lastTitle(s, articles) ==
  IF Len(articles) > 0 THEN articles[Len(articles)] ELSE s.lastScrapedTitle

\* String(n) for n >= 0, as a sequence of characters
DigitChars == <<"0", "1", "2", "3", "4", "5", "6", "7", "8", "9">>

RECURSIVE Str(_)
Str(n) ==
  IF n < 10 THEN <<DigitChars[n + 1]>>
  ELSE Str(n \div 10) \o <<DigitChars[(n % 10) + 1]>>

\* String(n).padStart(2, '0')
padStart2(n) == IF Len(Str(n)) < 2 THEN <<"0">> \o Str(n) ELSE Str(n)

\* s.substring(from, to) and s.substring(from)
substring(s, from, to) == SubSeq(s, from + 1, Min(to, Len(s)))
substringFrom(s, from) == SubSeq(s, from + 1, Len(s))

\* function parsePublicationDate(pubDate)
parsePublicationDate(pubDate) ==
  IF pubDate.valid
  THEN Str(pubDate.year) \o padStart2(pubDate.month) \o padStart2(pubDate.day)
  ELSE LET year == IF pubDate.token # 0 THEN Str(pubDate.token)
                   ELSE <<"u", "n", "k", "n", "o", "w", "n", "_",
                          "y", "e", "a", "r">>
       IN year \o <<"_", "u", "n", "k", "n", "o", "w", "n">>

\* A file saveFile is asked to write: chrome/{dir}/{sub}/{name}.{ext}
File(dir, sub, name, ext) ==
  [dir |-> dir, sub |-> sub, name |-> name, ext |-> ext]

\* `chrome/${data.journal}/${yyyy}/${mmdd}.${ext}`
issueFilename(d, ext) ==
  LET yyyymmdd == parsePublicationDate(d.publicationDate)
      yyyy == substring(yyyymmdd, 0, 4)
      mmdd == substringFrom(yyyymmdd, 4)
  IN File(d.journal, yyyy, mmdd, ext)

\* `chrome/search/${yyyymmdd}/page${pageNum}.${ext}`
baseFilename(count, ext) ==
  File("search", Today, <<"p", "a", "g", "e">> \o padStart2(count), ext)

\* The outcome of a page result: the state it leaves, the files it asks to
\* save, the status events it broadcasts, the navigation it schedules (a
\* sequence of at most one timer), whether it ran stopScraping and the tab
\* whose removal that stopScraping requested.
Outcome(st, files, events, scheduled, stopped, closeReq) ==
  [st |-> st, files |-> files, events |-> events, scheduled |-> scheduled,
   stopped |-> stopped, closeReq |-> closeReq]

\* const stopAtPage: the page limit left out
stopAtPage_NoLimit(d) ==
  LET totalResults == IF d.hasPagination THEN OrElse(d.totalResults, 0) ELSE 0
  IN Ceil(totalResults, PageSize)

\* const stopAtPage: a totalResults that is absent or no number taken for
\* the page limit
stopAtPage_Capped(d) ==
  LET totalResults == IF d.hasPagination /\ d.totalResults # NaN
                      THEN d.totalResults
                      ELSE PageLimit * PageSize
  IN Min(Ceil(totalResults, PageSize), PageLimit)

\* const pagination = data.pagination || {};
\* const totalResults = pagination.totalResults || 0;
\* const stopAtPage = Math.min(Math.ceil(totalResults / 50), 20)
stopAtPage(d) ==
  LET totalResults == IF d.hasPagination THEN OrElse(d.totalResults, 0) ELSE 0
  IN Min(Ceil(totalResults, PageSize), PageLimit)

\* function handleNatureSearchData(data): the articles of the page put in the
\* place of the accumulated ones
handleNatureSearchData_Replaces(s, d) ==
  LET s1 == [s EXCEPT !.naturePageCount = @ + 1,
                      !.natureArticles = d.articles,
                      !.lastScrapedTitle = lastTitle(s, d.articles)]
      files == <<baseFilename(s1.naturePageCount, "html"),
                 baseFilename(s1.naturePageCount, "json")>>
      r == stopScraping(s1, FALSE)
  IN IF s1.naturePageCount < stopAtPage(d)
     THEN Outcome(s1, files, <<broadcastStatus(s1)>>,
                  <<[Timer("search", s1.naturePageCount + 1) EXCEPT
                       !.url = nextUrl(d.currentUrl, s1.naturePageCount + 1)]>>,
                  FALSE, NoTab)
     ELSE Outcome(r.st, files, <<broadcastStatus(s1), r.event>>, <<>>, TRUE,
                  r.closeReq)

\* function handleNatureSearchData(data)
handleNatureSearchData(s, d) ==
  LET s1 == [s EXCEPT !.naturePageCount = @ + 1,
                      !.natureArticles = @ \o d.articles,
                      !.lastScrapedTitle = lastTitle(s, d.articles)]
      files == <<baseFilename(s1.naturePageCount, "html"),
                 baseFilename(s1.naturePageCount, "json")>>
      r == stopScraping(s1, FALSE)
  IN IF s1.naturePageCount < stopAtPage(d)
     THEN Outcome(s1, files, <<broadcastStatus(s1)>>,
                  <<[Timer("search", s1.naturePageCount + 1) EXCEPT
                       !.url = nextUrl(d.currentUrl, s1.naturePageCount + 1)]>>,
                  FALSE, NoTab)
     ELSE Outcome(r.st, files, <<broadcastStatus(s1), r.event>>, <<>>, TRUE,
                  r.closeReq)

\* function saveHtmlForDebug(data)
saveHtmlForDebug(d) == issueFilename(d, "html")

\* handleScrapedData past its isScraping guard: the isHeartbeat return left
\* out, so that a heartbeat is processed as an issue result
processScrapedData_NoHeartbeat(s, d) ==
  IF d.isNatureSearch
  THEN handleNatureSearchData(s, d)
  ELSE
    LET s1 == [s EXCEPT !.issueCount = @ + 1,
                        !.allArticles = @ \o d.articles,
                        !.lastScrapedTitle = lastTitle(s, d.articles)]
        files == <<issueFilename(d, "json"), saveHtmlForDebug(d)>>
        r == stopScraping(s1, FALSE)
    IN IF d.hasNext
       THEN Outcome(s1, files, <<broadcastStatus(s1)>>,
                    <<Timer("issue", 0)>>, FALSE, NoTab)
       ELSE Outcome(r.st, files, <<broadcastStatus(s1), r.event>>, <<>>, TRUE,
                    r.closeReq)

\* handleScrapedData past its isScraping guard: the articles of an issue
\* result put before the accumulated ones
processScrapedData_Prepends(s, d) ==
  IF d.isNatureSearch
  THEN handleNatureSearchData(s, d)
  ELSE IF d.isHeartbeat
  THEN Outcome(s, <<saveHtmlForDebug(d)>>, <<>>, <<>>, FALSE, NoTab)
  ELSE
    LET s1 == [s EXCEPT !.issueCount = @ + 1,
                        !.allArticles = d.articles \o @,
                        !.lastScrapedTitle = lastTitle(s, d.articles)]
        files == <<issueFilename(d, "json"), saveHtmlForDebug(d)>>
        r == stopScraping(s1, FALSE)
    IN IF d.hasNext
       THEN Outcome(s1, files, <<broadcastStatus(s1)>>,
                    <<Timer("issue", 0)>>, FALSE, NoTab)
       ELSE Outcome(r.st, files, <<broadcastStatus(s1), r.event>>, <<>>, TRUE,
                    r.closeReq)

\* handleScrapedData past its isScraping guard: the files of an issue result
\* named after the issue count, as search pages are after the page count
processScrapedData_CountedFiles(s, d) ==
  IF d.isNatureSearch
  THEN handleNatureSearchData(s, d)
  ELSE IF d.isHeartbeat
  THEN Outcome(s, <<saveHtmlForDebug(d)>>, <<>>, <<>>, FALSE, NoTab)
  ELSE
    LET s1 == [s EXCEPT !.issueCount = @ + 1,
                        !.allArticles = @ \o d.articles,
                        !.lastScrapedTitle = lastTitle(s, d.articles)]
        files == <<[issueFilename(d, "json") EXCEPT
                      !.name = padStart2(s1.issueCount)],
                   [saveHtmlForDebug(d) EXCEPT
                      !.name = padStart2(s1.issueCount)]>>
        r == stopScraping(s1, FALSE)
    IN IF d.hasNext
       THEN Outcome(s1, files, <<broadcastStatus(s1)>>,
                    <<Timer("issue", 0)>>, FALSE, NoTab)
       ELSE Outcome(r.st, files, <<broadcastStatus(s1), r.event>>, <<>>, TRUE,
                    r.closeReq)

\* handleScrapedData past its isScraping guard: the dispatch on the payload's
\* shape and the issue-mode processing.
processScrapedData(s, d) ==
  IF d.isNatureSearch
  THEN handleNatureSearchData(s, d)
  ELSE IF d.isHeartbeat
  THEN Outcome(s, <<saveHtmlForDebug(d)>>, <<>>, <<>>, FALSE, NoTab)
  ELSE
    LET s1 == [s EXCEPT !.issueCount = @ + 1,
                        !.allArticles = @ \o d.articles,
                        !.lastScrapedTitle = lastTitle(s, d.articles)]
        files == <<issueFilename(d, "json"), saveHtmlForDebug(d)>>
        r == stopScraping(s1, FALSE)
    IN IF d.hasNext
       THEN Outcome(s1, files, <<broadcastStatus(s1)>>,
                    <<Timer("issue", 0)>>, FALSE, NoTab)
       ELSE Outcome(r.st, files, <<broadcastStatus(s1), r.event>>, <<>>, TRUE,
                    r.closeReq)

\* function handleScrapedData(data): the isScraping guard left out
handleScrapedData_NoGuard(s, d) == processScrapedData(s, d)

\* function handleScrapedData(data)
handleScrapedData(s, d) ==
  IF ~s.isScraping
  THEN Outcome(s, <<>>, <<>>, <<>>, FALSE, NoTab)
  ELSE processScrapedData(s, d)

\* -------------------------------------------------------------------- Init
Init ==
  /\ state = InitState
  /\ nextTabId = 1
  /\ pendingCreate = {}
  /\ pendingRemove = {}
  /\ timers = <<>>
  /\ pendingUpdates = <<>>
  /\ pendingSaves = <<>>
  /\ received = NoneReceived
  /\ loads = 0
  /\ last = Step("init", InitState)
  /\ out = NoOut

\* ----------------------------------------------------------------- actions
\* case 'startScraping': handleStartScraping(message, sendResponse)
StartScraping(journal, maxTabs) ==
  /\ nextTabId <= maxTabs
  /\ state' = resetState(state, journal)
  /\ pendingCreate' = pendingCreate \cup {nextTabId}
  /\ nextTabId' = nextTabId + 1
  /\ last' = [Step("startScraping", state) EXCEPT
                !.journal = journal,
                !.preCount = handleCheckStatus(state).issueCount]
  /\ out' = [NoOut EXCEPT !.createReq = nextTabId]
  /\ received' = NoneReceived
  /\ UNCHANGED <<pendingRemove, timers, pendingUpdates, pendingSaves>>

\* chrome.tabs.create callback: (tab) => { state.scraperTabId = tab.id; }
TabCreated(id) ==
  /\ id \in pendingCreate
  /\ pendingCreate' = pendingCreate \ {id}
  /\ state' = [state EXCEPT !.scraperTabId = id]
  /\ last' = Step("tabCreated", state)
  /\ out' = NoOut
  /\ UNCHANGED <<received, loads, nextTabId, pendingRemove, timers,
                 pendingUpdates, pendingSaves>>

\* case 'stopScraping': handleStopScraping(sendResponse)
StopScraping ==
  LET r == stopScraping(state, TRUE) IN
  /\ state' = r.st
  /\ pendingRemove' = IF r.closeReq # NoTab
                      THEN pendingRemove \cup {r.closeReq} ELSE pendingRemove
  /\ timers' = MarkStopped(timers)
  /\ last' = Step("stopScraping", state)
  /\ out' = [NoOut EXCEPT !.closeReq = r.closeReq, !.events = <<r.event>>]
  /\ UNCHANGED <<received, loads, nextTabId, pendingCreate, pendingUpdates,
                 pendingSaves>>

\* chrome.tabs.remove callback: () => { state.scraperTabId = null; }
TabRemoved(id) ==
  /\ id \in pendingRemove
  /\ pendingRemove' = pendingRemove \ {id}
  /\ state' = [state EXCEPT !.scraperTabId = NoTab]
  /\ last' = Step("tabRemoved", state)
  /\ out' = NoOut
  /\ UNCHANGED <<received, loads, nextTabId, pendingCreate, timers,
                 pendingUpdates, pendingSaves>>

\* case 'checkStatus': handleCheckStatus(sendResponse)
CheckStatus ==
  /\ last' = Step("checkStatus", state)
  /\ out' = [NoOut EXCEPT !.response = <<handleCheckStatus(state)>>]
  /\ UNCHANGED <<received, loads, state, nextTabId, pendingCreate,
                 pendingRemove, timers, pendingUpdates, pendingSaves>>

\* case 'pageScraped': handlePageScraped(message, sendResponse)
PageScraped(d, maxIssues, maxPages, maxPending, maxSaves) ==
  LET r == handleScrapedData(state, d) IN
  /\ state.isScraping =>
       /\ Len(r.st.allArticles) + Len(r.st.natureArticles) <= MaxArticles
       /\ r.st.issueCount <= maxIssues
       /\ r.st.naturePageCount <= maxPages
       /\ Len(timers) + Len(pendingUpdates) + Len(r.scheduled) <= maxPending
       /\ maxSaves > 0 => Len(pendingSaves) + Len(r.files) <= maxSaves
  /\ state' = r.st
  /\ timers' = IF r.stopped THEN MarkStopped(timers) ELSE timers \o r.scheduled
  /\ pendingRemove' = IF r.closeReq # NoTab
                      THEN pendingRemove \cup {r.closeReq} ELSE pendingRemove
  /\ last' = [Step("pageScraped", state) EXCEPT
                !.shape = Shape(d), !.hasNext = d.hasNext,
                !.totals = IF state.isScraping THEN Totals(d) ELSE "none"]
  /\ out' = [NoOut EXCEPT !.files = r.files, !.events = r.events,
                          !.scheduled = r.scheduled, !.closeReq = r.closeReq]
  /\ pendingSaves' = IF maxSaves > 0 THEN pendingSaves \o r.files
                     ELSE pendingSaves
  /\ received' = IF state.isScraping THEN Receive(received, d) ELSE received
  /\ UNCHANGED <<nextTabId, pendingCreate, pendingUpdates>>

\* The setTimeout callback with the session's activity checked when the
\* navigation was scheduled only: if (state.scraperTabId) chrome.tabs.update
TimerFires_TabOnly ==
  LET t == Head(timers)
      go == state.scraperTabId # NoTab
  IN
  /\ timers # <<>>
  /\ timers' = Tail(timers)
  /\ pendingUpdates' = IF go THEN Append(pendingUpdates, t.mode)
                       ELSE pendingUpdates
  /\ last' = [Step("timer", state) EXCEPT !.stopped = t.stopped,
                                          !.mode = t.mode]
  /\ out' = [NoOut EXCEPT !.navigated = IF go THEN state.scraperTabId
                                         ELSE NoTab]
  /\ UNCHANGED <<received, loads, state, nextTabId, pendingCreate,
                 pendingRemove, pendingSaves>>

\* The setTimeout callback of the oldest scheduled navigation (equal delays
\* elapse in the order they were set):
\* if (state.isScraping && state.scraperTabId) chrome.tabs.update(...)
TimerFires ==
  LET t == Head(timers)
      go == state.isScraping /\ state.scraperTabId # NoTab
  IN
  /\ timers # <<>>
  /\ timers' = Tail(timers)
  /\ pendingUpdates' = IF go THEN Append(pendingUpdates, t.mode)
                       ELSE pendingUpdates
  /\ last' = [Step("timer", state) EXCEPT !.stopped = t.stopped,
                                          !.mode = t.mode]
  /\ out' = [NoOut EXCEPT !.navigated = IF go THEN state.scraperTabId
                                         ELSE NoTab]
  /\ UNCHANGED <<received, loads, state, nextTabId, pendingCreate,
                 pendingRemove, pendingSaves>>

\* The browser reports the outcome of a chrome.tabs.update.  Only the issue
\* mode passes a callback: (tab) => { if (chrome.runtime.lastError)
\* stopScraping(); }.  The search mode passes none, so nothing runs.
NavReport(i, ok) ==
  LET failed == pendingUpdates[i] = "issue" /\ ~ok
      r == stopScraping(state, FALSE)
  IN
  /\ i \in 1..Len(pendingUpdates)
  /\ pendingUpdates' = RemoveAt(pendingUpdates, i)
  /\ state' = IF failed THEN r.st ELSE state
  /\ timers' = IF failed THEN MarkStopped(timers) ELSE timers
  /\ pendingRemove' = IF failed /\ r.closeReq # NoTab
                      THEN pendingRemove \cup {r.closeReq} ELSE pendingRemove
  /\ last' = [Step("navReport", state) EXCEPT !.mode = pendingUpdates[i],
                                              !.ok = ok]
  /\ out' = IF failed
            THEN [NoOut EXCEPT !.events = <<r.event>>, !.closeReq = r.closeReq]
            ELSE NoOut
  /\ UNCHANGED <<received, nextTabId, pendingCreate, pendingSaves>>

\* The chrome.downloads.download callback, treating a failed download as the
\* issue navigation callback treats a failed navigation: stopScraping()
SaveReport_StopsOnFailure(i, ok) ==
  LET r == stopScraping(state, FALSE) IN
  /\ i \in 1..Len(pendingSaves)
  /\ pendingSaves' = RemoveAt(pendingSaves, i)
  /\ state' = IF ok THEN state ELSE r.st
  /\ timers' = IF ok THEN timers ELSE MarkStopped(timers)
  /\ last' = [Step("saveReport", state) EXCEPT !.ok = ok]
  /\ out' = IF ok THEN NoOut ELSE [NoOut EXCEPT !.events = <<r.event>>]
  /\ UNCHANGED <<received, loads, nextTabId, pendingCreate, pendingRemove,
                 pendingUpdates>>

\* The chrome.downloads.download callback of a file saveFile asked for:
\* (downloadId) => { if (chrome.runtime.lastError) console.error(...) else
\* console.log(...) }.  Downloads finish in any order.
SaveReport(i, ok) ==
  /\ i \in 1..Len(pendingSaves)
  /\ pendingSaves' = RemoveAt(pendingSaves, i)
  /\ last' = [Step("saveReport", state) EXCEPT !.ok = ok]
  /\ out' = NoOut
  /\ UNCHANGED <<received, loads, state, nextTabId, pendingCreate,
                 pendingRemove, timers, pendingUpdates>>

\* The specifications below, all but the last, follow no page load: a page
\* result may arrive at any time and from any tab.
Next ==
  \/ (\E j \in Journals : StartScraping(j, MaxTabs)) /\ UNCHANGED loads
  \/ \E id \in pendingCreate : TabCreated(id)
  \/ StopScraping
  \/ \E id \in pendingRemove : TabRemoved(id)
  \/ CheckStatus
  \/ (\E d \in PageData : PageScraped(d, MaxIssues, MaxPages, MaxPending, 0))
       /\ UNCHANGED loads
  \/ TimerFires
  \/ (\E i \in 1..Len(pendingUpdates), ok \in BOOLEAN : NavReport(i, ok))
       /\ UNCHANGED loads

Spec == Init /\ [][Next]_vars

\* The long search run: the same handlers, one start, search results without
\* articles, as many as DeepPages of them.
NextDeep ==
  \/ (\E j \in {"nature"} : StartScraping(j, DeepTabs)) /\ UNCHANGED loads
  \/ \E id \in pendingCreate : TabCreated(id)
  \/ StopScraping
  \/ \E id \in pendingRemove : TabRemoved(id)
  \/ CheckStatus
  \/ (\E d \in DeepData : PageScraped(d, MaxIssues, DeepPages, DeepPending, 0))
       /\ UNCHANGED loads
  \/ TimerFires
  \/ (\E i \in 1..Len(pendingUpdates), ok \in BOOLEAN : NavReport(i, ok))
       /\ UNCHANGED loads

SpecDeep == Init /\ [][NextDeep]_vars

\* The file run: the payloads of FileData, no status query.
NextFiles ==
  \/ (\E j \in {"cell"} : StartScraping(j, FileTabs)) /\ UNCHANGED loads
  \/ \E id \in pendingCreate : TabCreated(id)
  \/ StopScraping
  \/ \E id \in pendingRemove : TabRemoved(id)
  \/ (\E d \in FileData :
       PageScraped(d, FileIssues, FilePages, FilePending, 0))
       /\ UNCHANGED loads
  \/ TimerFires
  \/ (\E i \in 1..Len(pendingUpdates), ok \in BOOLEAN : NavReport(i, ok))
       /\ UNCHANGED loads

SpecFiles == Init /\ [][NextFiles]_vars

\* The article run: the payloads of ArticleData, no status query.
NextArticles ==
  \/ (\E j \in {"cell"} : StartScraping(j, ArticleTabs)) /\ UNCHANGED loads
  \/ \E id \in pendingCreate : TabCreated(id)
  \/ StopScraping
  \/ \E id \in pendingRemove : TabRemoved(id)
  \/ (\E d \in ArticleData :
       PageScraped(d, ArticleIssues, MaxPages, ArticlePending, 0))
       /\ UNCHANGED loads
  \/ TimerFires
  \/ (\E i \in 1..Len(pendingUpdates), ok \in BOOLEAN : NavReport(i, ok))
       /\ UNCHANGED loads

SpecArticles == Init /\ [][NextArticles]_vars

\* The download run: the payloads of SaveData, and the outcome of every
\* download reported by the browser.
NextSaves ==
  \/ (\E j \in {"cell"} : StartScraping(j, SaveTabs)) /\ UNCHANGED loads
  \/ \E id \in pendingCreate : TabCreated(id)
  \/ StopScraping
  \/ \E id \in pendingRemove : TabRemoved(id)
  \/ CheckStatus
  \/ (\E d \in SaveData :
       PageScraped(d, SaveIssues, SavePages, SavePending, SaveDownloads))
       /\ UNCHANGED loads
  \/ TimerFires
  \/ (\E i \in 1..Len(pendingUpdates), ok \in BOOLEAN : NavReport(i, ok))
       /\ UNCHANGED loads
  \/ \E i \in 1..Len(pendingSaves), ok \in BOOLEAN : SaveReport(i, ok)

SpecSaves == Init /\ [][NextSaves]_vars

\* The session run: the payloads of SessionData, no status query.
NextSession ==
  \/ (\E j \in {"nature"} : StartScraping(j, SessionTabs)) /\ UNCHANGED loads
  \/ \E id \in pendingCreate : TabCreated(id)
  \/ StopScraping
  \/ \E id \in pendingRemove : TabRemoved(id)
  \/ (\E d \in SessionData :
       PageScraped(d, SessionIssues, SessionPages, SessionPending, 0))
       /\ UNCHANGED loads
  \/ TimerFires
  \/ (\E i \in 1..Len(pendingUpdates), ok \in BOOLEAN : NavReport(i, ok))
       /\ UNCHANGED loads

SpecSession == Init /\ [][NextSession]_vars

\* The accumulation run: the payloads of GrowthData, no status query.
NextGrowth ==
  \/ (\E j \in {"nature"} : StartScraping(j, GrowthTabs)) /\ UNCHANGED loads
  \/ \E id \in pendingCreate : TabCreated(id)
  \/ StopScraping
  \/ \E id \in pendingRemove : TabRemoved(id)
  \/ (\E d \in GrowthData :
       PageScraped(d, GrowthIssues, GrowthPages, GrowthPending, 0))
       /\ UNCHANGED loads
  \/ TimerFires
  \/ (\E i \in 1..Len(pendingUpdates), ok \in BOOLEAN : NavReport(i, ok))
       /\ UNCHANGED loads

SpecGrowth == Init /\ [][NextGrowth]_vars

\* The page-load run.  chrome.tabs.create and every successful
\* chrome.tabs.update make the scraper tab load a page; the content script of
\* a loaded page sends one result (it asks checkStatus first and stays silent
\* when the session is inactive, which the isScraping guard of
\* handleScrapedData models).  A page has loaded only after the
\* chrome.tabs.create callback of its tab has run.  The last issue an issue
\* session is allowed has no next issue URL.
LiveData ==
  [isNatureSearch : {FALSE}, isHeartbeat : {FALSE}, articles : {<<>>},
   hasNext : BOOLEAN, hasPagination : {FALSE}, totalResults : {0},
   pageSize : {PageSize}, journal : {"cell"}, publicationDate : {FullDate},
   currentUrl : {SearchUrl}]
  \cup
  [isNatureSearch : {TRUE}, isHeartbeat : {FALSE}, articles : {<<>>},
   hasNext : {FALSE}, hasPagination : {TRUE}, totalResults : {0, 100},
   pageSize : {PageSize}, journal : {"nature"}, publicationDate : {FullDate},
   currentUrl : {SearchUrl}]

LiveStart(j) == StartScraping(j, LiveTabs) /\ loads' = loads + 1

LiveNavReport(i, ok) ==
  NavReport(i, ok) /\ loads' = IF ok THEN loads + 1 ELSE loads

LiveResult(d) ==
  /\ loads > 0
  /\ pendingCreate = {}
  /\ (state.isScraping /\ ~d.isNatureSearch
        /\ state.issueCount + 1 >= LiveIssues) => ~d.hasNext
  /\ PageScraped(d, LiveIssues, LivePages, LivePending, 0)
  /\ loads' = loads - 1

NextLive ==
  \/ \E j \in {"cell"} : LiveStart(j)
  \/ \E id \in pendingCreate : TabCreated(id)
  \/ StopScraping
  \/ \E id \in pendingRemove : TabRemoved(id)
  \/ \E d \in LiveData : LiveResult(d)
  \/ TimerFires
  \/ \E i \in 1..Len(pendingUpdates), ok \in BOOLEAN : LiveNavReport(i, ok)

\* Callbacks, timers and page loads are not held back for ever; starts and
\* manual stops are the user's.
SpecLive ==
  /\ Init /\ [][NextLive]_vars
  /\ WF_vars(\E id \in pendingCreate : TabCreated(id))
  /\ WF_vars(\E id \in pendingRemove : TabRemoved(id))
  /\ WF_vars(TimerFires)
  /\ WF_vars(\E i \in 1..Len(pendingUpdates), ok \in BOOLEAN :
               LiveNavReport(i, ok))
  /\ WF_vars(\E d \in LiveData : LiveResult(d))


\* ------------------------------------------------------------------ claims

\* C1: a page result (issue, search or heartbeat shaped) delivered while the
\* session is inactive changes no field of the session state, requests no
\* file write, emits no status event, schedules no navigation and closes no
\* tab.
C1_InactiveResultIgnored ==
  [][(last'.op = "pageScraped" /\ ~state.isScraping) =>
       /\ state' = state
       /\ out'.files = <<>>
       /\ out'.events = <<>>
       /\ out'.scheduled = <<>> /\ timers' = timers
       /\ out'.closeReq = NoTab /\ pendingRemove' = pendingRemove]_vars

\* An issue result with a next issue URL has been delivered to an inactive
\* session that still holds the counters of a finished search session.
C1_Witness ==
  /\ last.op = "pageScraped" /\ ~last.wasActive
  /\ last.shape = "issue" /\ last.hasNext
  /\ state.naturePageCount > 0

\* C2: whatever the state before it, the status snapshot taken right after a
\* start is active, carries the journal the start was given, counts 0 pages
\* and 0 articles and has an empty last article title.
C2_StartSnapshot ==
  last.op = "startScraping" =>
    handleCheckStatus(state) =
      [isScraping |-> TRUE, issueCount |-> 0, articleCount |-> 0,
       lastScrapedTitle |-> "", journal |-> last.journal]

\* A start has arrived in an active session whose status counted pages.
C2_Witness ==
  last.op = "startScraping" /\ last.wasActive /\ last.preCount > 0

\* C3: after an issue result without a next issue URL is processed in an
\* active session, the session is inactive at the end of that step, the step
\* scheduled no navigation and requested no tab removal.
C3_LastIssueStops ==
  (last.op = "pageScraped" /\ last.wasActive /\ last.shape = "issue"
     /\ ~last.hasNext) =>
    /\ ~state.isScraping
    /\ out.scheduled = <<>>
    /\ out.closeReq = NoTab

\* The last issue of a session whose tab had been created has been processed.
C3_Witness ==
  /\ last.op = "pageScraped" /\ last.wasActive /\ last.shape = "issue"
  /\ ~last.hasNext
  /\ pendingCreate = {} /\ nextTabId > 1

\* C4: a delayed navigation that was pending when stopScraping ran is never
\* performed, whatever follows the stop.
C4_StoppedNavigationSuppressed ==
  ~(last.op = "timer" /\ last.stopped /\ out.navigated # NoTab)

\* C5: a search result with totalResults >= 0 and pageSize >= 1 ends the
\* session exactly when the page count has reached
\* min(ceil(totalResults / pageSize), 20), pageSize being the page size the
\* result carries.
C5_StopPageFromPageSize ==
  [][\A d \in SearchData :
       (state.isScraping /\ d.hasPagination
          /\ PageScraped(d, MaxIssues, MaxPages, MaxPending, 0)) =>
         (~state'.isScraping <=>
            state'.naturePageCount >=
              Min(Ceil(d.totalResults, d.pageSize), PageLimit))]_vars

\* C6: the search page counter never exceeds 20 and no navigation is ever
\* scheduled to a search page beyond 20.
C6_PageLimit ==
  /\ state.naturePageCount <= PageLimit
  /\ \A i \in 1..Len(timers) :
       timers[i].mode = "search" => timers[i].page <= PageLimit
  /\ \A i \in 1..Len(out.scheduled) :
       out.scheduled[i].mode = "search" => out.scheduled[i].page <= PageLimit

\* The twentieth search page has been processed and ended the session.
C6_Witness ==
  /\ last.op = "pageScraped" /\ last.wasActive /\ last.shape = "search"
  /\ state.naturePageCount = PageLimit
  /\ ~state.isScraping

\* C7: a start received while a session is active is rejected: it leaves the
\* session state (counters, articles, journal, tab handle) unchanged and
\* creates no tab.
C7_SecondStartRejected ==
  [][(last'.op = "startScraping" /\ state.isScraping) =>
       /\ state' = state
       /\ out'.createReq = NoTab
       /\ pendingCreate' = pendingCreate]_vars

\* C8: whenever the session is inactive and no tab-creation or tab-removal
\* callback is pending, the tab handle is null.
C8_SettledStopHasNoTab ==
  (~state.isScraping /\ pendingCreate = {} /\ pendingRemove = {}) =>
    state.scraperTabId = NoTab

\* A page result that ends the session of itself: the last issue, or a search
\* page that schedules no further page.
NaturalCompletion ==
  /\ last.op = "pageScraped" /\ last.wasActive
  /\ \/ last.shape = "issue" /\ ~last.hasNext
     \/ last.shape = "search" /\ out.scheduled = <<>>

\* The browser has reported that a scheduled navigation could not be loaded.
NavigationFailed == last.op = "navReport" /\ ~last.ok

\* C9: only a manual stop requests that the tab be closed; natural
\* completion (issue or search mode) and a navigation failure leave the
\* session inactive with a null tab handle and request no tab removal.
C9_CloseOnlyOnManualStop ==
  /\ out.closeReq # NoTab => last.op = "stopScraping"
  /\ (NaturalCompletion \/ NavigationFailed) =>
       /\ ~state.isScraping
       /\ state.scraperTabId = NoTab
       /\ out.closeReq = NoTab

\* C10: after the browser reports a failed navigation, in issue mode and in
\* search mode alike, the session is inactive and no tab removal was
\* requested.
C10_NavigationFailureStops ==
  NavigationFailed => (~state.isScraping /\ out.closeReq = NoTab)

\* The step just taken ran stopScraping: a manual stop, a page result that
\* ends the session of itself, or the failure callback of an issue navigation.
StopRan ==
  \/ last.op = "stopScraping"
  \/ NaturalCompletion
  \/ last.op = "navReport" /\ last.mode = "issue" /\ ~last.ok

\* C13: every step that runs stopScraping (manual or natural, the session
\* active or not) emits a status event in that same step, and the last event
\* of the step says the session is inactive and agrees with the status the
\* state then has.
C13_StopEmitsInactiveStatus ==
  StopRan =>
    /\ out.events # <<>>
    /\ ~out.events[Len(out.events)].isScraping
    /\ out.events[Len(out.events)] = handleCheckStatus(state)

\* A manual stop has arrived in a session that had already ended of itself
\* after counting an issue.
C13_Witness ==
  /\ last.op = "stopScraping" /\ ~last.wasActive
  /\ state.issueCount > 0
  /\ out.events # <<>>

\* C14: a manual stop changes no field of the session state other than the
\* active flag and the tab handle (articles, counters, last title and journal
\* stay), so the status after the stop is the status before it with the
\* active flag false.
C14_StopKeepsAccumulators ==
  [][last'.op = "stopScraping" =>
       /\ state' = [state EXCEPT !.isScraping = FALSE,
                                 !.scraperTabId = state'.scraperTabId]
       /\ handleCheckStatus(state') =
            [handleCheckStatus(state) EXCEPT !.isScraping = FALSE]]_vars

\* A manual stop has ended an active session that had accumulated articles.
C14_Witness ==
  /\ last.op = "stopScraping" /\ last.wasActive
  /\ Len(state.allArticles) > 0
  /\ state.lastScrapedTitle # ""

\* C16: a heartbeat processed in an active session requests exactly one file
\* write, the raw HTML at the issue path of its journal and publication
\* date, and nothing else: the session state (counters, articles, last title,
\* active flag, tab handle) is unchanged, no status event is emitted, no
\* navigation is scheduled and no stop is run.
C16_HeartbeatSavesHtmlOnly ==
  [][\A d \in FileData :
       (last'.op = "pageScraped" /\ last'.shape = "heartbeat"
          /\ d.isHeartbeat /\ state.isScraping
          /\ PageScraped(d, FileIssues, FilePages, FilePending, 0)) =>
         /\ state' = state
         /\ out'.files = <<issueFilename(d, "html")>>
         /\ out'.events = <<>>
         /\ out'.scheduled = <<>> /\ timers' = timers
         /\ out'.closeReq = NoTab /\ pendingRemove' = pendingRemove
         /\ pendingUpdates' = pendingUpdates]_vars

\* A heartbeat has been processed in an active session that had counted an
\* issue.
C16_Witness ==
  /\ last.op = "pageScraped" /\ last.wasActive /\ last.shape = "heartbeat"
  /\ state.isScraping /\ state.issueCount > 0
  /\ Len(out.files) = 1 /\ out.files[1].ext = "html"

\* C17: an issue result processed in an active session increases the issue
\* count by exactly 1, appends its articles in their order to the end of the
\* accumulated articles, and sets the last title to the title of its last
\* article when it has one, leaving the last title as it was when it has
\* none.
C17_IssueResultAccumulates ==
  [][\A d \in ArticleData :
       (last'.op = "pageScraped" /\ last'.hasNext = d.hasNext
          /\ state.isScraping
          /\ PageScraped(d, ArticleIssues, MaxPages, ArticlePending, 0)) =>
         /\ state'.issueCount = state.issueCount + 1
         /\ state'.allArticles = state.allArticles \o d.articles
         /\ Len(state'.allArticles) = Len(state.allArticles) + Len(d.articles)
         /\ state'.lastScrapedTitle =
              IF d.articles # <<>> THEN d.articles[Len(d.articles)]
              ELSE state.lastScrapedTitle]_vars

\* The second issue result of a session has added article B after the
\* article A of the first.
C17_Witness ==
  /\ last.op = "pageScraped" /\ last.wasActive /\ last.shape = "issue"
  /\ state.issueCount = 2
  /\ state.allArticles = <<"A", "B">>
  /\ state.lastScrapedTitle = "B"

\* C20: a search result whose pagination totals are missing, zero or no
\* number, processed in an active session, schedules no navigation and ends
\* the session in that step.
C20_MalformedTotalsStop ==
  (last.op = "pageScraped" /\ last.wasActive
     /\ last.totals = "malformed") =>
    /\ ~state.isScraping
    /\ out.scheduled = <<>>
    /\ \A i \in 1..Len(timers) : timers[i].stopped

\* A search result with malformed totals has ended the session at its first
\* page.
C20_Witness ==
  /\ last.op = "pageScraped" /\ last.wasActive
  /\ last.totals = "malformed"
  /\ state.naturePageCount = 1 /\ ~state.isScraping

\* The issue results that name the same journal and publication date as d.
SameIssue(d) ==
  {e \in FileData : /\ ~e.isNatureSearch /\ ~e.isHeartbeat
                    /\ e.journal = d.journal
                    /\ e.publicationDate = d.publicationDate}

\* C18: an issue result processed in an active session requests exactly two
\* file writes, one manifest (.json) and one HTML, and a search result one
\* JSON and one HTML; the two issue paths differ only in the extension and
\* are the paths any issue result of the same journal and publication date
\* writes, before this one and after it, so a second delivery of the same
\* result writes the same two paths, and the session goes on or ends as the
\* result's next issue URL says.
C18_TwoFilesPerResult ==
  [][\A d \in FileData :
       (last'.op = "pageScraped" /\ last'.shape = Shape(d)
          /\ ~d.isHeartbeat /\ state.isScraping
          /\ PageScraped(d, FileIssues, FilePages, FilePending, 0)) =>
         /\ Len(out'.files) = 2
         /\ Cardinality({i \in 1..2 : out'.files[i].ext = "json"}) = 1
         /\ Cardinality({i \in 1..2 : out'.files[i].ext = "html"}) = 1
         /\ ~d.isNatureSearch =>
              /\ [out'.files[1] EXCEPT !.ext = "html"] =
                   [out'.files[2] EXCEPT !.ext = "html"]
              /\ \A e \in SameIssue(d) :
                   /\ handleScrapedData(state, e).files = out'.files
                   /\ state'.isScraping =>
                        handleScrapedData(state', e).files = out'.files
              /\ state'.isScraping <=> d.hasNext]_vars

\* The issue result with article A and a next issue URL has been delivered a
\* second time in the session it started.
C18_Witness ==
  /\ last.op = "pageScraped" /\ last.wasActive /\ last.shape = "issue"
  /\ last.hasNext /\ state.isScraping
  /\ state.issueCount = 2
  /\ state.allArticles = <<"A", "A">>
  /\ Len(out.files) = 2

\* C19: the report of a failed download changes no field of the session
\* state, cancels no scheduled navigation, and emits and requests nothing; and
\* a scheduled navigation whose delay elapses in an active session with a tab
\* is performed whatever became of the downloads, and a session that a page
\* result ended stays ended through the download reports.
C19_SaveFailureIsInert ==
  [][/\ (last'.op = "saveReport" /\ ~last'.ok) =>
          /\ state' = state
          /\ timers' = timers /\ pendingUpdates' = pendingUpdates
          /\ pendingCreate' = pendingCreate /\ pendingRemove' = pendingRemove
          /\ out' = NoOut
     /\ (last'.op = "timer" /\ state.isScraping
           /\ state.scraperTabId # NoTab) =>
          out'.navigated = state.scraperTabId]_vars

\* A download has been reported failed while the navigation its page result
\* scheduled was still waiting for its delay.
C19_Witness ==
  /\ last.op = "saveReport" /\ ~last.ok
  /\ state.isScraping /\ state.scraperTabId # NoTab
  /\ timers # <<>>

\* The step just taken is an operation that changes the session state: a
\* start, a manual stop, or an issue or search result processed in an active
\* session.
Mutation ==
  \/ last.op \in {"startScraping", "stopScraping"}
  \/ last.op = "pageScraped" /\ last.wasActive
       /\ last.shape \in {"issue", "search"}

\* C12: every operation that changes the session state (start, issue result,
\* search result, stop) emits at least one status event in its step, and the
\* last event of the step is the status a query would then return.
C12_MutationEmitsStatus ==
  Mutation =>
    /\ out.events # <<>>
    /\ out.events[Len(out.events)] = handleCheckStatus(state)

\* C15: while the results delivered to the session since the latest start are
\* all issue results or all search results, the count and the article count
\* of the status a query returns, and of every status event of the step just
\* taken, are the number of those results and the number of their articles.
C15_StatusCountsCurrentSession ==
  (received.issues = 0 \/ received.pages = 0) =>
    /\ handleCheckStatus(state).issueCount = received.issues + received.pages
    /\ handleCheckStatus(state).articleCount = received.articles
    /\ \A i \in 1..Len(out.events) :
         /\ out.events[i].issueCount = received.issues + received.pages
         /\ out.events[i].articleCount = received.articles

\* A search result without articles has been processed as the first result
\* of the session of a second start.
C15_Witness ==
  /\ last.op = "pageScraped" /\ last.wasActive /\ last.shape = "search"
  /\ received = [issues |-> 0, pages |-> 1, articles |-> 0]
  /\ nextTabId = 3
  /\ out.events # <<>>

\* C11: with callbacks, timers and page loads not held back for ever, every
\* page load delivering one result and the last issue of an issue session
\* having no next issue URL, a session that is active eventually becomes
\* inactive.
C11_SessionTerminates == state.isScraping ~> ~state.isScraping

\* Every character of s is a decimal digit.
IsDigits(s) == \A i \in 1..Len(s) : \E k \in 1..10 : s[i] = DigitChars[k]

\* The key parsePublicationDate returned for an issue file: the year
\* directory followed by the file name, as substring(0, 4) and substring(4)
\* split it.
DateKey(f) == f.sub \o f.name

\* C21: the date key of every issue file requested is either 8 digits
\* (YYYYMMDD) or a 4-digit 20xx year followed by _unknown, so the year
\* directory of the file is 4 digits and its file name is not empty.
C21_DateKeyWellFormed ==
  \A i \in 1..Len(out.files) :
    out.files[i].dir # "search" =>
      LET f == out.files[i]
          key == DateKey(f)
      IN /\ \/ Len(key) = 8 /\ IsDigits(key)
            \/ /\ Len(key) = 12
               /\ IsDigits(SubSeq(key, 1, 4))
               /\ SubSeq(key, 1, 2) = <<"2", "0">>
               /\ SubSeq(key, 5, 12) = <<"_", "u", "n", "k", "n", "o", "w", "n">>
         /\ Len(f.sub) = 4 /\ IsDigits(f.sub)
         /\ f.name # <<>>

\* C22: whenever the session is inactive, after a manual stop and after
\* natural completion as well as before the first start, the journal of the
\* session state is null.
C22_IdleJournalIsNull == ~state.isScraping => state.currentJournal = Null

\* C23: a navigation of the scraper tab is requested only by an elapsing
\* delay that finds the session active and the tab handle non-null, and it
\* targets the tab the handle then names; a delay that elapses with the
\* session inactive or the handle null requests nothing, although the session
\* was active when the navigation was scheduled.
C23_NavigationCheckedAtElapse ==
  /\ out.navigated # NoTab =>
       /\ last.op = "timer"
       /\ state.isScraping /\ state.scraperTabId # NoTab
       /\ out.navigated = state.scraperTabId
  /\ (last.op = "timer" /\ ~(state.isScraping /\ state.scraperTabId # NoTab))
       => out.navigated = NoTab

\* The delay of a navigation has elapsed after a manual stop, with the tab
\* handle still set (its removal callback not yet run), and nothing was
\* requested.
C23_Witness ==
  /\ last.op = "timer" /\ last.stopped
  /\ ~state.isScraping /\ state.scraperTabId # NoTab
  /\ out.navigated = NoTab

\* C24: at any time at most one scheduled navigation is waiting for its
\* delay to elapse, also when two page results are delivered within one delay
\* window.
C24_OnePendingNavigation == Len(timers) <= 1

\* The tabs created by a start that no stop has closed or released: a tab
\* whose creation callback has not run yet is known to no stop, and the tab
\* the handle names has not been released; it has been closed when its
\* removal callback is pending.
Held ==
  pendingCreate \cup ({state.scraperTabId} \ ({NoTab} \cup pendingRemove))

\* C25: at any time at most one tab created by a start is neither closed nor
\* released by a stop.
C25_OneTabHeld == Cardinality(Held) <= 1

\* C26: a page result sent by a tab other than the one the tab handle names,
\* while a session is active and its tab is known, changes no field of the
\* session state, requests no file write, emits no status event and schedules
\* no navigation.
C26_ForeignResultIgnored ==
  [][\A d \in SessionData :
       (last'.op = "pageScraped" /\ state.isScraping
          /\ state.scraperTabId # NoTab /\ d.sender # state.scraperTabId
          /\ PageScraped(d, SessionIssues, SessionPages, SessionPending, 0)) =>
         /\ state' = state
         /\ out'.files = <<>>
         /\ out'.events = <<>>
         /\ out'.scheduled = <<>> /\ timers' = timers]_vars

\* a is b, or b with its last elements left out
IsPrefix(a, b) == Len(a) <= Len(b) /\ SubSeq(b, 1, Len(a)) = a

\* C27: no step other than a start decreases the issue counter or the search
\* page counter, and no step other than a start changes the accumulated
\* articles of either mode except by appending at the end, so between two
\* starts every earlier value is a prefix of every later one and the counters
\* and accumulators are set to zero or empty by a start only.
C27_AccumulatorsOnlyGrow ==
  [][last'.op # "startScraping" =>
       /\ state'.issueCount >= state.issueCount
       /\ state'.naturePageCount >= state.naturePageCount
       /\ IsPrefix(state.allArticles, state'.allArticles)
       /\ IsPrefix(state.natureArticles, state'.natureArticles)]_vars

\* The second search result of a session has added article B after the
\* article A of the first.
C27_Witness ==
  /\ last.op = "pageScraped" /\ last.wasActive /\ last.shape = "search"
  /\ state.naturePageCount = 2
  /\ state.natureArticles = <<"A", "B">>

\* C28: when a page result has scheduled a navigation, the files of that page
\* have been written: none of them is a download whose outcome the browser
\* has yet to report.
C28_PersistedBeforeScheduling ==
  (last.op = "pageScraped" /\ out.scheduled # <<>>) =>
    \A i \in 1..Len(out.files) :
      \A k \in 1..Len(pendingSaves) : pendingSaves[k] # out.files[i]

\* C29: the k-th search result processed in a session has its files named
\* page{k}, zero-padded to two digits, and the navigation it schedules targets
\* page k+1 at the URL of the result with every page parameter removed and
\* page=k+1 appended.
C29_ConsecutiveSearchPages ==
  [][\A d \in SessionData :
       (last'.op = "pageScraped" /\ last'.shape = "search"
          /\ d.isNatureSearch /\ state.isScraping
          /\ PageScraped(d, SessionIssues, SessionPages, SessionPending, 0)) =>
         LET k == received'.pages
             NotPage(p) == p.name # "page"
             StripPage(url) == SelectSeq(url, NotPage)
         IN
         /\ \A i \in 1..Len(out'.files) :
              out'.files[i].name = <<"p", "a", "g", "e">> \o padStart2(k)
         /\ \A i \in 1..Len(out'.scheduled) :
              /\ out'.scheduled[i].page = k + 1
              /\ out'.scheduled[i].url =
                   Append(StripPage(d.currentUrl), Param("page", k + 1))]_vars

\* C30: a tab-removal callback never clears the tab handle of an active
\* session whose handle names the tab the most recent start created; so when
\* a session is active and no tab-creation or tab-removal callback is pending
\* any more, the handle still names that tab.
C30_LateRemovalKeepsHandle ==
  [][(last'.op = "tabRemoved" /\ state.isScraping /\ pendingCreate = {}
        /\ state.scraperTabId = nextTabId - 1) =>
       state'.scraperTabId = state.scraperTabId]_vars

====
